---- MODULE Spec2Model ----
(***************************************************************************)
(* Token lifecycle of graphqlclient.GraphClient (src/graphqlclient/        *)
(* client.py): construction, query(), renew_token(), close_session(), the  *)
(* credential file and the token cache file on disk, the wall clock and    *)
(* the HTTP requests each operation issues.                                *)
(*                                                                         *)
(* Strings that the code takes apart are sequences: a token or a file      *)
(* content is a sequence of characters, a URL is the sequence of its       *)
(* "/"-separated segments ("" is <<"">>).  Time is counted in hours.       *)
(***************************************************************************)
EXTENDS Integers, Sequences, FiniteSets, TLC

\* Constants.TOKEN_LIFESPAN: hours a cached token is kept.
TOKEN_LIFESPAN == 1

\* Last hour of the wall clock.
MaxTime == 3

\* Hour at which the caller constructs the client: late enough for a cache
\* file left by an earlier run to be older than the lifespan.
StartTime == TOKEN_LIFESPAN + 1

EmptyStr == << >>

Fields == {"client_id", "client_secret", "name", "access_token_uri"}

Whitespace == {" ", "\n"}

\* Values the token endpoint may return as access_token.
MintValues == {<<"a">>, <<"b">>}

\* Contents a cache file may have when the client is constructed.
CacheContents == {<<"a">>, <<"c", "\n">>}

\* URL of the token endpoint in the credential files.
TokenUri == <<"h", "api", "token">>

OtherTokenUri == <<"g", "token">>

\* base_url arguments of an anonymous construction.
BaseUrlArgs == {<<"fruits">>}

\* Outcome of one HTTP exchange: a 2xx answer, a non-2xx answer
\* (raise_for_status), or no answer (ConnectionError, Timeout).
HttpOutcomes == {"ok", "status", "transport"}

\* Answers of the token endpoint: "nofield" is a 2xx answer without an
\* access_token field.
MintResponses ==
  {[out |-> "ok", access_token |-> v] : v \in MintValues}
    \cup {[out |-> o, access_token |-> EmptyStr] : o \in {"status", "nofield"}}

\* Texts the GraphQL endpoint may send as the body of a 2xx answer: a JSON
\* object holding data, a JSON object holding errors, and a text that is not
\* JSON.
QueryBodies ==
  {<<"{", "data", "}">>, <<"{", "errors", "}">>, <<"<", "html", ">">>}

\* Answers to the POST of query(): the outcome and the text of the body.
QueryResponses ==
  {[out |-> "ok", access_token |-> EmptyStr, text |-> b] : b \in QueryBodies}
    \cup {[out |-> o, access_token |-> EmptyStr, text |-> EmptyStr] :
             o \in {"status", "transport"}}

\* A parsed JSON object with string values: the keys it has and their values.
EmptyDict == [keys |-> {}, val |-> [f \in Fields |-> EmptyStr]]

KeyDict(keys, uri, secret) ==
  [keys |-> keys,
   val |-> [f \in Fields |->
              IF f \notin keys THEN EmptyStr
              ELSE IF f = "access_token_uri" THEN uri
              ELSE IF f = "client_id" THEN <<"i">>
              ELSE IF f = "client_secret" THEN secret
              ELSE <<"n">>]]

\* The credential files on disk the model draws from: complete ones, one
\* without client_id, one without access_token_uri, one with an empty
\* client_secret, and one that cannot be read or parsed.
KeyFiles ==
  {[readable |-> TRUE, json |-> KeyDict(Fields, TokenUri, <<"s">>)],
   [readable |-> TRUE, json |-> KeyDict(Fields, OtherTokenUri, <<"s">>)],
   [readable |-> TRUE, json |-> KeyDict(Fields \ {"client_id"}, TokenUri, <<"s">>)],
   [readable |-> TRUE, json |-> KeyDict(Fields \ {"access_token_uri"}, TokenUri, <<"s">>)],
   [readable |-> TRUE, json |-> KeyDict(Fields, TokenUri, EmptyStr)],
   [readable |-> FALSE, json |-> EmptyDict]}

NoFile == [exists |-> FALSE, content |-> EmptyStr, mtime |-> 0]

\* Token values the model can see.
RECURSIVE lstrip(_)
lstrip(s) ==
  IF s # << >> /\ Head(s) \in Whitespace THEN lstrip(Tail(s)) ELSE s

RECURSIVE rstrip(_)
rstrip(s) ==
  IF s # << >> /\ s[Len(s)] \in Whitespace
  THEN rstrip(SubSeq(s, 1, Len(s) - 1)) ELSE s

\* str.strip
strip(s) == rstrip(lstrip(s))

AllTokens == MintValues \cup {strip(c) : c \in CacheContents}

\* What a call that raised, or that returns None, hands to its caller.
NoValue == [valid |-> FALSE, keys |-> {}]

\* response.json(): the object the text encodes, as the set of its top-level
\* keys; not valid when the text is not a JSON object.
json(text) ==
  IF Len(text) >= 2 /\ text[1] = "{" /\ text[Len(text)] = "}"
  THEN [valid |-> TRUE, keys |-> {text[i] : i \in 2..(Len(text) - 1)}]
  ELSE NoValue

\* re.sub(r"/[^/]*$", "", uri): drop the last "/" and what follows it.
re_sub(uri) == IF Len(uri) > 1 THEN SubSeq(uri, 1, Len(uri) - 1) ELSE uri

\* f"{base}/{endpoint}"
UrlJoin(base, endpoint) == Append(base, endpoint)

VARIABLES
  phase,        \* "new": not constructed; "live": a client exists; "failed": __init__ raised
  json_keyfile, \* whether the caller passes a credential file to __init__
  options,      \* self.__options
  base_url,     \* self.__base_url
  json_key,     \* self.__json_key
  token,        \* self.__token
  keyFile,      \* the credential file on disk
  tokenFile,    \* the cache file on disk: existence, content, modification time
  now,          \* wall clock, in hours
  reqs,         \* HTTP requests issued by the call that has just returned, in order
  last,         \* the call that has just returned, how it ended and, for query(), what it returned
  revoked,      \* tokens whose session this client's DELETE closed
  token_time,   \* hour the token held in memory was issued (-1: no token)
  writer,       \* the write_text in progress on the cache file, when its steps are told apart
  peer          \* a second process that reads the same cache file

vars == <<phase, json_keyfile, options, base_url, json_key, token, keyFile,
          tokenFile, now, reqs, last, revoked, token_time, writer, peer>>

\* The object's fields, the cache file and the request log, threaded through
\* the private methods; exc is set when the method raised.
Self ==
  [token |-> token, base_url |-> base_url, json_key |-> json_key,
   tokenFile |-> tokenFile, reqs |-> << >>, revoked |-> revoked,
   token_time |-> token_time, exc |-> FALSE]

Raise(s) == [s EXCEPT !.exc = TRUE]

\* An answer that carries no access_token.
Answer(out) == [out |-> out, access_token |-> EmptyStr]

\* One HTTP exchange of the log: what was sent, whether the answer passed
\* raise_for_status (and, for a mint, held an access_token), and the
\* access_token it carried.
Request(call, method, url, headers, resp) ==
  [call |-> call, method |-> method, url |-> url, headers |-> headers,
   ok |-> resp.out = "ok", access_token |-> resp.access_token]

\* kwargs.get(key, default) for the two boolean options
kwargs_get(kwargs, key, default) ==
  IF key \in kwargs.given THEN kwargs[key] ELSE default

\* GraphClient.__init__, the Options it builds
Options(kwargs) ==
  [session |-> "session", graphql |-> "graphql",
   manage_token |-> kwargs_get(kwargs, "manage_token", json_keyfile),
   keep_token |-> kwargs_get(kwargs, "keep_token", json_keyfile)]

\* GraphClient.__get_headers: Authorization only when a token is held
__get_headers(s) ==
  IF s.token # EmptyStr
  THEN [Authorization |-> TRUE, bearer |-> s.token]
  ELSE [Authorization |-> FALSE, bearer |-> EmptyStr]

\* GraphClient.__read_key_file
__read_key_file(s) ==
  IF ~json_keyfile \/ ~keyFile.readable THEN Raise(s)
  ELSE LET s1 == [s EXCEPT !.json_key = keyFile.json]
       IN IF "access_token_uri" \notin s1.json_key.keys THEN Raise(s1)
          ELSE [s1 EXCEPT !.base_url = re_sub(s1.json_key.val["access_token_uri"])]

\* GraphClient.__delete_token
__delete_token(s, opts, out) ==
  LET s1 == [s EXCEPT !.reqs = Append(@, Request("__delete_token", "DELETE",
                          UrlJoin(s.base_url, opts.session), __get_headers(s),
                          Answer(out)))]
  IN IF out # "ok" THEN Raise(s1)
     ELSE [s1 EXCEPT !.token = EmptyStr, !.token_time = -1,
                     !.revoked = @ \cup ({s.token} \ {EmptyStr})]

\* __close_session that lets the exception of __delete_token through.
__close_session_raises(s, opts, out) == __delete_token(s, opts, out)

\* GraphClient.__close_session: the exception of __delete_token is logged
__close_session(s, opts, out) ==
  [__delete_token(s, opts, out) EXCEPT !.exc = FALSE]

\* Path.write_text(data), as the operating system sees it: open(mode='w')
\* creates or truncates the file, the data is appended when the buffer is
\* flushed, and the file is closed.
open_w(file) == [exists |-> TRUE, content |-> EmptyStr, mtime |-> now]

write(file, data) == [file EXCEPT !.content = @ \o data, !.mtime = now]

\* write_text with no other process looking at the file meanwhile.
write_text(file, data) == write(open_w(file), data)

\* GraphClient.__get_access_token_keyfile up to the assignment of the token:
\* the credentials are looked up, the POST is sent and access_token is taken
\* from the answer.
__request_access_token(s, resp) ==
  IF ~(Fields \subseteq s.json_key.keys) THEN Raise(s)
  ELSE
    LET s1 == [s EXCEPT !.reqs = Append(@, Request(
                            "__get_access_token_keyfile", "POST",
                            s.json_key.val["access_token_uri"],
                            __get_headers(s), resp))]
    IN IF resp.out # "ok" THEN Raise(s1)
       ELSE [s1 EXCEPT !.token = resp.access_token,
                       !.revoked = @ \ {resp.access_token},
                       !.token_time = now]

\* __get_access_token_keyfile that writes the cache file whatever keep_token.
__get_access_token_keyfile_always_writes(s, opts, resp) ==
  LET s2 == __request_access_token(s, resp)
  IN IF s2.exc THEN s2
     ELSE [s2 EXCEPT !.tokenFile = write_text(@, s2.token)]

\* GraphClient.__get_access_token_keyfile
__get_access_token_keyfile(s, opts, resp) ==
  LET s2 == __request_access_token(s, resp)
  IN IF s2.exc THEN s2
     ELSE IF opts.keep_token
     THEN [s2 EXCEPT !.tokenFile = write_text(@, s2.token)]
     ELSE s2

\* __read_token_file with "<=" for "<": a token exactly one lifespan old is
\* taken for expired.
__read_token_file_le(s, opts, out) ==
  IF ~s.tokenFile.exists THEN [self |-> s, ret |-> FALSE]
  ELSE
    LET s1 == [s EXCEPT !.token = strip(s.tokenFile.content),
                        !.token_time = s.tokenFile.mtime]
    IN IF opts.manage_token /\ s1.tokenFile.mtime <= now - TOKEN_LIFESPAN
       THEN [self |-> __close_session(s1, opts, out), ret |-> FALSE]
       ELSE [self |-> s1, ret |-> TRUE]

\* __read_token_file that returns False on an expired token without closing
\* the session.
__read_token_file_no_revoke(s, opts, out) ==
  IF ~s.tokenFile.exists THEN [self |-> s, ret |-> FALSE]
  ELSE
    LET s1 == [s EXCEPT !.token = strip(s.tokenFile.content),
                        !.token_time = s.tokenFile.mtime]
    IN IF opts.manage_token /\ s1.tokenFile.mtime < now - TOKEN_LIFESPAN
       THEN [self |-> s1, ret |-> FALSE]
       ELSE [self |-> s1, ret |-> TRUE]

\* GraphClient.__read_token_file: the state it leaves and the value it returns
__read_token_file(s, opts, out) ==
  IF ~s.tokenFile.exists THEN [self |-> s, ret |-> FALSE]
  ELSE
    LET s1 == [s EXCEPT !.token = strip(s.tokenFile.content),
                        !.token_time = s.tokenFile.mtime]
    IN IF opts.manage_token /\ s1.tokenFile.mtime < now - TOKEN_LIFESPAN
       THEN [self |-> __close_session(s1, opts, out), ret |-> FALSE]
       ELSE [self |-> s1, ret |-> TRUE]

\* __manage_session that mints only when no token is held once the cache
\* was read.
__manage_session_if_no_token(s, opts, out, resp) ==
  LET s1 == __read_key_file(s)
  IN IF s1.exc THEN s1
     ELSE
       LET rd == IF opts.manage_token /\ opts.keep_token
                 THEN __read_token_file(s1, opts, out)
                 ELSE [self |-> s1, ret |-> FALSE]
           s2 == IF rd.self.exc THEN rd.self
                 ELSE IF opts.manage_token /\ rd.self.token = EmptyStr
                 THEN __get_access_token_keyfile(rd.self, opts, resp)
                 ELSE rd.self
       IN IF s2.exc THEN s2 ELSE [s2 EXCEPT !.json_key = EmptyDict]

\* GraphClient.__manage_session
__manage_session(s, opts, out, resp) ==
  LET s1 == __read_key_file(s)
  IN IF s1.exc THEN s1
     ELSE
       LET rd == IF opts.manage_token /\ opts.keep_token
                 THEN __read_token_file(s1, opts, out)
                 ELSE [self |-> s1, ret |-> FALSE]
           s2 == IF rd.self.exc THEN rd.self
                 ELSE IF opts.manage_token /\ (~opts.keep_token \/ ~rd.ret)
                 THEN __get_access_token_keyfile(rd.self, opts, resp)
                 ELSE rd.self
       IN IF s2.exc THEN s2 ELSE [s2 EXCEPT !.json_key = EmptyDict]

\* GraphClient.__init__
__init__(s, kwargs, out, resp) ==
  IF json_keyfile
  THEN __manage_session(s, Options(kwargs), out, resp)
  ELSE [s EXCEPT !.base_url = kwargs.base_url]

\* renew_token that mints without closing the current session first.
renew_token_no_revoke(s, opts, out, resp) ==
  LET s1 == __read_key_file(s)
  IN IF s1.exc THEN s1
     ELSE
       LET s3 == __get_access_token_keyfile(s1, opts, resp)
       IN IF s3.exc THEN s3 ELSE [s3 EXCEPT !.json_key = EmptyDict]

\* GraphClient.renew_token
renew_token(s, opts, out, resp) ==
  LET s1 == __read_key_file(s)
  IN IF s1.exc THEN s1
     ELSE
       LET s2 == __close_session(s1, opts, out)
           s3 == IF s2.exc THEN s2
                 ELSE __get_access_token_keyfile(s2, opts, resp)
       IN IF s3.exc THEN s3 ELSE [s3 EXCEPT !.json_key = EmptyDict]

\* query() that treats a body holding "errors" as a failed request.
query_raises_on_errors(s, opts, resp) ==
  LET s1 == [s EXCEPT !.reqs = Append(@, [text |-> resp.text] @@
                          Request("query", "POST",
                                  UrlJoin(s.base_url, opts.graphql),
                                  __get_headers(s), resp))]
  IN IF resp.out # "ok" \/ ~json(resp.text).valid
        \/ "errors" \in json(resp.text).keys
     THEN [self |-> Raise(s1), ret |-> NoValue]
     ELSE [self |-> s1, ret |-> json(resp.text)]

\* query() that drops the token it holds when the request fails.
query_forgets_token(s, opts, resp) ==
  LET s1 == [s EXCEPT !.reqs = Append(@, [text |-> resp.text] @@
                          Request("query", "POST",
                                  UrlJoin(s.base_url, opts.graphql),
                                  __get_headers(s), resp))]
  IN IF resp.out # "ok" \/ ~json(resp.text).valid
     THEN [self |-> Raise([s1 EXCEPT !.token = EmptyStr, !.token_time = -1]),
           ret |-> NoValue]
     ELSE [self |-> s1, ret |-> json(resp.text)]

\* GraphClient.query: the state it leaves and the value it returns; the log
\* entry of its POST also holds the text of the answer's body.
query(s, opts, resp) ==
  LET s1 == [s EXCEPT !.reqs = Append(@, [text |-> resp.text] @@
                          Request("query", "POST",
                                  UrlJoin(s.base_url, opts.graphql),
                                  __get_headers(s), resp))]
  IN IF resp.out # "ok" \/ ~json(resp.text).valid
     THEN [self |-> Raise(s1), ret |-> NoValue]
     ELSE [self |-> s1, ret |-> json(resp.text)]

\* close_session whose guard forgets keep_token.
close_session_ignores_keep(s, opts, out) ==
  IF ~opts.manage_token THEN s ELSE __close_session(s, opts, out)

\* GraphClient.close_session
close_session(s, opts, out) ==
  IF ~opts.manage_token \/ opts.keep_token THEN s
  ELSE IF ~opts.keep_token THEN __close_session(s, opts, out)
  ELSE s

\* The credential files the code can read every field of: readable JSON
\* holding the four keys.
CredentialFiles ==
  {f \in KeyFiles : f.readable /\ Fields \subseteq f.json.keys}

\* Those among them whose four values are non-empty.
ValidCredentialFiles ==
  {f \in CredentialFiles : \A k \in Fields : f.json.val[k] # EmptyStr}

\* The cache file is older than the lifespan.
Expired(file) == file.exists /\ now - file.mtime > TOKEN_LIFESPAN

IsRevoke(r) == r.call = "__delete_token" /\ r.method = "DELETE"

IsMint(r) == r.call = "__get_access_token_keyfile" /\ r.method = "POST"

IsQuery(r) == r.call = "query" /\ r.method = "POST"

Mints(rs) == {i \in 1..Len(rs) : IsMint(rs[i])}

Revokes(rs) == {i \in 1..Len(rs) : IsRevoke(rs[i])}

\* The arguments a caller may construct the client with.
KwargsSets(keyfile) ==
  {kw \in [given : SUBSET {"manage_token", "keep_token"},
           manage_token : BOOLEAN, keep_token : BOOLEAN,
           base_url : IF keyfile THEN {<<"">>} ELSE BaseUrlArgs] :
     /\ kw.manage_token => "manage_token" \in kw.given
     /\ kw.keep_token => "keep_token" \in kw.given}

NoCall == [op |-> "none", result |-> "ok"]

\* No write_text is in progress; old is the content the file held when the
\* last one began.
NoWrite == [pc |-> "closed", old |-> EmptyStr]

\* No second process.
NoPeer == [pc |-> "none", token |-> EmptyStr, ret |-> FALSE]

Result(s) == IF s.exc THEN "raised" ELSE "ok"

\* The method's final state becomes the state of the object, the disk and
\* the request log.
Store(s) ==
  /\ token' = s.token
  /\ base_url' = s.base_url
  /\ json_key' = s.json_key
  /\ tokenFile' = s.tokenFile
  /\ reqs' = s.reqs
  /\ revoked' = s.revoked
  /\ token_time' = s.token_time

Init ==
  /\ phase = "new"
  /\ json_keyfile \in BOOLEAN
  /\ options = [session |-> "session", graphql |-> "graphql",
                manage_token |-> FALSE, keep_token |-> FALSE]
  /\ base_url = <<"">>
  /\ json_key = EmptyDict
  /\ token = EmptyStr
  /\ keyFile \in IF json_keyfile THEN KeyFiles
                 ELSE {[readable |-> FALSE, json |-> EmptyDict]}
  /\ tokenFile \in IF json_keyfile
                   THEN {NoFile} \cup
                        {[exists |-> TRUE, content |-> c, mtime |-> m] :
                           c \in CacheContents, m \in 0..StartTime}
                   ELSE {NoFile}
  /\ now = StartTime
  /\ reqs = << >>
  /\ last = NoCall
  /\ revoked = {}
  /\ token_time = -1
  /\ writer = NoWrite
  /\ peer = NoPeer

\* client = GraphClient(json_keyfile, **kwargs)
Construct(kwargs, out, resp) ==
  /\ phase = "new"
  /\ LET s == __init__(Self, kwargs, out, resp)
     IN /\ Store(s)
        /\ phase' = IF s.exc THEN "failed" ELSE "live"
        /\ last' = [op |-> "__init__", result |-> Result(s)]
  /\ options' = Options(kwargs)
  /\ UNCHANGED <<json_keyfile, keyFile, now, writer, peer>>

\* result = client.query(my_query)
Query(resp) ==
  /\ phase = "live"
  /\ LET r == query(Self, options, resp)
     IN /\ Store(r.self)
        /\ last' = [op |-> "query", result |-> Result(r.self), ret |-> r.ret]
  /\ UNCHANGED <<phase, json_keyfile, options, keyFile, now, writer, peer>>

\* client.renew_token()
RenewToken(out, resp) ==
  /\ phase = "live"
  /\ LET s == renew_token(Self, options, out, resp)
     IN /\ Store(s)
        /\ last' = [op |-> "renew_token", result |-> Result(s)]
  /\ UNCHANGED <<phase, json_keyfile, options, keyFile, now, writer, peer>>

\* client.close_session()
CloseSession(out) ==
  /\ phase = "live"
  /\ LET s == close_session(Self, options, out)
     IN /\ Store(s)
        /\ last' = [op |-> "close_session", result |-> Result(s)]
  /\ UNCHANGED <<phase, json_keyfile, options, keyFile, now, writer, peer>>

\* An hour passes between two calls.
Tick ==
  /\ now < MaxTime
  /\ now' = now + 1
  /\ reqs' = << >>
  /\ last' = NoCall
  /\ UNCHANGED <<phase, json_keyfile, options, base_url, json_key, token,
                 keyFile, tokenFile, revoked, token_time, writer, peer>>

\* The credential file is rewritten on disk between two calls.
KeyFileChanged ==
  /\ json_keyfile
  /\ phase = "live"
  /\ keyFile' \in KeyFiles \ {keyFile}
  /\ reqs' = << >>
  /\ last' = NoCall
  /\ UNCHANGED <<phase, json_keyfile, options, base_url, json_key, token,
                 tokenFile, now, revoked, token_time, writer, peer>>

Next ==
  \/ \E kwargs \in KwargsSets(json_keyfile), out \in HttpOutcomes,
        resp \in MintResponses : Construct(kwargs, out, resp)
  \/ \E resp \in QueryResponses : Query(resp)
  \/ \E out \in HttpOutcomes, resp \in MintResponses : RenewToken(out, resp)
  \/ \E out \in HttpOutcomes : CloseSession(out)
  \/ Tick
  \/ KeyFileChanged

Spec == Init /\ [][Next]_vars

TypeOK ==
  /\ phase \in {"new", "live", "failed"}
  /\ token \in AllTokens \cup {EmptyStr}
  /\ now \in StartTime..MaxTime
  /\ Len(reqs) <= 2

(***************************************************************************)
(* Two processes on one cache file.  The first client, built with          *)
(* keep_token = true, renews its token; the steps of its write_text are     *)
(* told apart.  A second process, started with the same credential file,   *)
(* reads the cache file between any two of them.                           *)
(***************************************************************************)

\* Tokens long enough to reach the disk in more than one piece.
LongTokens == {<<"a", "b">>, <<"c", "d", "e">>}

\* Answers of the token endpoint to the first client.
LongMintResponses ==
  {[out |-> "ok", access_token |-> v] : v \in LongTokens}
    \cup {[out |-> "status", access_token |-> EmptyStr]}

\* The second process before it has read the cache file.
PeerStart == [pc |-> "start", token |-> EmptyStr, ret |-> FALSE]

\* The object the second process is constructing, at the point where its
\* __manage_session calls __read_token_file.
PeerSelf ==
  [token |-> EmptyStr, base_url |-> base_url, json_key |-> keyFile.json,
   tokenFile |-> tokenFile, reqs |-> << >>, revoked |-> {},
   token_time |-> -1, exc |-> FALSE]

\* The first client has been constructed at StartTime and has minted and
\* cached a token.
InitRace ==
  /\ phase = "live"
  /\ json_keyfile = TRUE
  /\ options = [session |-> "session", graphql |-> "graphql",
                manage_token |-> TRUE, keep_token |-> TRUE]
  /\ keyFile \in ValidCredentialFiles
  /\ base_url = re_sub(keyFile.json.val["access_token_uri"])
  /\ json_key = EmptyDict
  /\ now = StartTime
  /\ token \in LongTokens
  /\ tokenFile = write_text(NoFile, token)
  /\ reqs = << >>
  /\ last = NoCall
  /\ revoked = {}
  /\ token_time = now
  /\ writer = [pc |-> "closed", old |-> token]
  /\ peer = PeerStart

\* client.renew_token() up to the call of write_text: the credential file is
\* read, the session closed, the token requested and assigned.  When that
\* raises, renew_token() has returned.
RenewBegin(out, resp) ==
  /\ writer.pc = "closed"
  /\ LET s1 == __read_key_file(Self)
         s2 == IF s1.exc THEN s1 ELSE __close_session(s1, options, out)
         s3 == IF s2.exc THEN s2 ELSE __request_access_token(s2, resp)
     IN /\ Store(s3)
        /\ writer' = [writer EXCEPT
                        !.pc = IF s3.exc \/ ~options.keep_token
                               THEN "closed" ELSE "opening"]
        /\ last' = IF s3.exc
                   THEN [op |-> "renew_token", result |-> "raised"]
                   ELSE NoCall
  /\ UNCHANGED <<phase, json_keyfile, options, keyFile, now, peer>>

\* write_text: open(mode='w') truncates the cache file.
WriteOpen ==
  /\ writer.pc = "opening"
  /\ tokenFile' = open_w(tokenFile)
  /\ writer' = [writer EXCEPT !.pc = "open"]
  /\ UNCHANGED <<phase, json_keyfile, options, base_url, json_key, token,
                 keyFile, now, reqs, last, revoked, token_time, peer>>

\* write_text: the next n characters of the token reach the file.
WriteChunk(n) ==
  /\ writer.pc = "open"
  /\ n \in 1..(Len(token) - Len(tokenFile.content))
  /\ tokenFile' = write(tokenFile,
                        SubSeq(token, Len(tokenFile.content) + 1,
                               Len(tokenFile.content) + n))
  /\ UNCHANGED <<phase, json_keyfile, options, base_url, json_key, token,
                 keyFile, now, reqs, last, revoked, token_time, writer, peer>>

\* write_text: everything is written, the file is closed; renew_token()
\* clears the credentials and returns.
WriteClose ==
  /\ writer.pc = "open"
  /\ tokenFile.content = token
  /\ writer' = [pc |-> "closed", old |-> tokenFile.content]
  /\ json_key' = EmptyDict
  /\ last' = [op |-> "renew_token", result |-> "ok"]
  /\ UNCHANGED <<phase, json_keyfile, options, base_url, token, keyFile,
                 tokenFile, now, reqs, revoked, token_time, peer>>

\* The second process, constructing its client, runs __read_token_file.
PeerRead(out) ==
  /\ peer.pc = "start"
  /\ LET rd == __read_token_file(PeerSelf, options, out)
     IN /\ peer' = [pc |-> "read", token |-> rd.self.token, ret |-> rd.ret]
        /\ tokenFile' = rd.self.tokenFile
  /\ UNCHANGED <<phase, json_keyfile, options, base_url, json_key, token,
                 keyFile, now, reqs, last, revoked, token_time, writer>>

\* The second process ends; another one may start.
PeerExit ==
  /\ peer.pc = "read"
  /\ peer' = PeerStart
  /\ UNCHANGED <<phase, json_keyfile, options, base_url, json_key, token,
                 keyFile, tokenFile, now, reqs, last, revoked, token_time,
                 writer>>

NextRace ==
  \/ \E out \in HttpOutcomes, resp \in LongMintResponses :
       RenewBegin(out, resp)
  \/ WriteOpen
  \/ \E n \in 1..Len(token) : WriteChunk(n)
  \/ WriteClose
  \/ \E out \in HttpOutcomes : PeerRead(out)
  \/ PeerExit

SpecRace == InitRace /\ [][NextRace]_vars

(***************************************************************************)
(* Claims.  last and reqs describe the call that has just returned, so a   *)
(* state with last.op = "query" is the state query() returns in, and a     *)
(* step with last'.op = "query" is one call of query(): its unprimed       *)
(* variables are the state the call starts in.                             *)
(***************************************************************************)

\* C1: on a client built with a credential file, every GraphQL POST that
\* query() issues carries an Authorization: Bearer header whose token is
\* non-empty, not older than the token lifespan and not revoked by this client.
C1_QueryCarriesValidToken ==
  (json_keyfile /\ last.op = "query") =>
    \A i \in 1..Len(reqs) :
      IsQuery(reqs[i]) =>
        /\ reqs[i].headers.Authorization
        /\ reqs[i].headers.bearer # EmptyStr
        /\ now - token_time <= TOKEN_LIFESPAN
        /\ reqs[i].headers.bearer \notin revoked

\* What C2 says of one construction, for the keep_token values in keeps and
\* the credential files in keyfiles: with manage_token = true and a cache file
\* no older than the lifespan, the client holds the trimmed cache content and
\* no mint request was issued.
FreshCacheReused(keeps, keyfiles) ==
  (/\ last'.op = "__init__"
   /\ json_keyfile /\ keyFile \in keyfiles
   /\ options'.manage_token
   /\ options'.keep_token \in keeps
   /\ tokenFile.exists /\ ~Expired(tokenFile))
  => /\ phase' = "live"
     /\ token' = strip(tokenFile.content)
     /\ Mints(reqs') = {}

ExpiredCacheRevokedThenMinted(keeps, keyfiles) ==
  (/\ last'.op = "__init__"
   /\ json_keyfile /\ keyFile \in keyfiles
   /\ options'.manage_token
   /\ options'.keep_token \in keeps
   /\ Expired(tokenFile))
  => /\ Len(reqs') = 2
     /\ IsRevoke(reqs'[1])
     /\ IsMint(reqs'[2])

C4_UnmanagedCacheReused ==
  [][(/\ last'.op = "__init__"
      /\ json_keyfile /\ keyFile \in ValidCredentialFiles
      /\ ~options'.manage_token
      /\ tokenFile.exists)
     => /\ phase' = "live"
        /\ token' = strip(tokenFile.content)
        /\ reqs' = << >>]_vars

\* C5: a construction with a valid credential file and no cache file, for any
\* manage_token and keep_token, that returns without a failed mint yields a
\* client whose header is Authorization: Bearer T, T the access_token the
\* mint endpoint returned.
C5_MintedTokenInHeader ==
  [][(/\ last'.op = "__init__"
      /\ json_keyfile /\ keyFile \in ValidCredentialFiles
      /\ ~tokenFile.exists
      /\ \A i \in Mints(reqs') : reqs'[i].ok)
     => /\ phase' = "live"
        /\ __get_headers(Self').Authorization
        /\ \E i \in Mints(reqs') :
             __get_headers(Self').bearer = reqs'[i].access_token]_vars

\* C6: close_session() on a session configured with keep_token = true is a
\* no-op in every state: no HTTP request, the cache file and the in-memory
\* token unchanged, and a normal return.
C6_CloseKeepTokenNoOp ==
  [][(last'.op = "close_session" /\ options.keep_token) =>
       /\ reqs' = << >>
       /\ tokenFile' = tokenFile
       /\ token' = token
       /\ last'.result = "ok"]_vars

\* close_session() has returned on a keep_token session that holds a token
\* and has a cache file.
C6_Witness ==
  /\ last = [op |-> "close_session", result |-> "ok"]
  /\ options.manage_token /\ options.keep_token
  /\ token # EmptyStr
  /\ tokenFile.exists /\ strip(tokenFile.content) = token
  /\ reqs = << >>

\* C7: once close_session() has returned on an ephemeral session
\* (manage_token = true, keep_token = false), the in-memory token is empty, a
\* query would carry no Authorization header, and no cache file exists beside
\* the credential file.
C7_CloseEphemeralForgets ==
  (/\ last.op = "close_session"
   /\ json_keyfile
   /\ options.manage_token /\ ~options.keep_token) =>
    /\ token = EmptyStr
    /\ ~__get_headers(Self).Authorization
    /\ ~tokenFile.exists

\* C8: renew_token() on a client built with a credential file, the file
\* holding its four fields, issues one revoke attempt and then one mint
\* request whatever the state and the age of the cache file; when the mint
\* succeeds the in-memory token is the value returned and, with keep_token =
\* true, so is the content of the cache file.
C8_RenewRevokesThenMints ==
  [][(/\ last'.op = "renew_token"
      /\ json_keyfile /\ keyFile \in CredentialFiles) =>
       /\ Len(reqs') = 2
       /\ IsRevoke(reqs'[1])
       /\ IsMint(reqs'[2])
       /\ reqs'[2].ok =>
            /\ last'.result = "ok"
            /\ token' = reqs'[2].access_token
            /\ options.keep_token =>
                 /\ tokenFile'.exists
                 /\ tokenFile'.content = reqs'[2].access_token
                 /\ (reqs'[2].access_token # tokenFile.content
                       => tokenFile'.content # tokenFile.content)]_vars

\* renew_token() has replaced a cached token no older than the lifespan by a
\* different one, after a revoke that succeeded.
C8_Witness ==
  /\ last = [op |-> "renew_token", result |-> "ok"]
  /\ json_keyfile /\ options.manage_token /\ options.keep_token
  /\ Len(reqs) = 2
  /\ IsRevoke(reqs[1]) /\ reqs[1].ok /\ reqs[1].headers.bearer = <<"a">>
  /\ IsMint(reqs[2]) /\ reqs[2].ok
  /\ token = <<"b">> /\ tokenFile.content = <<"b">>
  /\ now = StartTime

\* The call issued a revoke request and it failed.
RevokeFailed(rs) == \E i \in Revokes(rs) : ~rs[i].ok

\* C9 as stated: when the revoke request fails during renew_token() or
\* close_session(), the call raises.
C9_RevokeFailureRaises ==
  (last.op \in {"renew_token", "close_session"} /\ RevokeFailed(reqs)) =>
    last.result = "raised"

\* C9 as amended: when the revoke request fails during renew_token() or
\* close_session(), the failure is logged and not raised: close_session()
\* returns normally with the token kept, and renew_token() goes on to the mint
\* step and raises exactly when that step fails.
C9_RevokeFailureSwallowed ==
  [][/\ (last'.op = "close_session" /\ RevokeFailed(reqs')) =>
          /\ last'.result = "ok"
          /\ token' = token
     /\ (last'.op = "renew_token" /\ RevokeFailed(reqs')) =>
          /\ keyFile \in CredentialFiles => Mints(reqs') = {2}
          /\ last'.result = "raised" <=>
               (Mints(reqs') = {} \/ ~reqs'[2].ok)]_vars

\* renew_token() has returned normally although its revoke request failed.
C9_Witness ==
  /\ last = [op |-> "renew_token", result |-> "ok"]
  /\ Len(reqs) = 2
  /\ IsRevoke(reqs[1]) /\ ~reqs[1].ok /\ reqs[1].headers.Authorization
  /\ IsMint(reqs[2]) /\ reqs[2].ok

\* C10: when the revoke request fails on the expiry path of a construction,
\* the failure is swallowed: the mint request is still issued and, if it
\* succeeds, construction completes with the freshly minted token in memory.
C10_ExpiryRevokeFailureSwallowed ==
  [][(/\ last'.op = "__init__"
      /\ json_keyfile /\ keyFile \in CredentialFiles
      /\ options'.manage_token
      /\ Expired(tokenFile)
      /\ RevokeFailed(reqs')) =>
       /\ Len(reqs') = 2
       /\ IsRevoke(reqs'[1])
       /\ IsMint(reqs'[2])
       /\ reqs'[2].ok =>
            /\ phase' = "live"
            /\ last'.result = "ok"
            /\ token' = reqs'[2].access_token
            /\ token_time' = now]_vars

\* A construction whose revoke of the expired token failed has ended with a
\* minted token that differs from the cached one.
C10_Witness ==
  /\ last = [op |-> "__init__", result |-> "ok"]
  /\ phase = "live" /\ json_keyfile /\ options.manage_token
  /\ Len(reqs) = 2
  /\ IsRevoke(reqs[1]) /\ ~reqs[1].ok /\ reqs[1].headers.bearer = <<"a">>
  /\ IsMint(reqs[2]) /\ reqs[2].ok
  /\ token = <<"b">> /\ token_time = now

\* C11: a construction with a credential file in which one of the four
\* fields client_id, client_secret, name, access_token_uri is absent or empty
\* raises and leaves no client, whatever the options and the cache file.
C11_IncompleteKeyFileFails ==
  [][(/\ last'.op = "__init__"
      /\ json_keyfile /\ keyFile.readable
      /\ keyFile \notin ValidCredentialFiles)
     => /\ phase' = "failed"
        /\ last'.result = "raised"]_vars

\* C12: whenever a public operation has returned to the caller of a client,
\* normally or by raising, the credentials the client stores (client_id,
\* client_secret, name, token URL) are empty.
C12_NoCredentialsRetained ==
  (phase = "live" /\ last.op # "none") => json_key = EmptyDict

\* C13: on a client built without a credential file, every query() is one
\* POST to base_url/graphql_endpoint without an Authorization header, no call
\* issues a mint request, and every renew_token() and close_session() leaves
\* the token and the base URL unchanged and either raises or does nothing (no
\* HTTP request).
C13_AnonymousNoSession ==
  [][(~json_keyfile /\ phase = "live" /\ last'.op # "none") =>
       /\ Mints(reqs') = {}
       /\ last'.op = "query" =>
            /\ Len(reqs') = 1
            /\ IsQuery(reqs'[1])
            /\ reqs'[1].url = UrlJoin(base_url, options.graphql)
            /\ ~reqs'[1].headers.Authorization
       /\ last'.op \in {"renew_token", "close_session"} =>
            /\ token' = token
            /\ base_url' = base_url
            /\ last'.result = "raised" \/ reqs' = << >>]_vars

\* C14: each query() issues exactly one POST; when that POST gets no answer
\* or a non-2xx one the call raises, and when it gets a 2xx answer with a JSON
\* body the call returns normally the decoded body as it is, also when the
\* body is a GraphQL error object {"errors": ...}.
C14_QueryOnePost ==
  [][last'.op = "query" =>
       /\ Len(reqs') = 1
       /\ IsQuery(reqs'[1])
       /\ ~reqs'[1].ok => last'.result = "raised"
       /\ (reqs'[1].ok /\ json(reqs'[1].text).valid) =>
            /\ last'.result = "ok"
            /\ last'.ret = json(reqs'[1].text)]_vars

\* query() has returned normally the decoded body of a 2xx answer that holds
\* "errors".
C14_Witness ==
  /\ last.op = "query" /\ last.result = "ok"
  /\ Len(reqs) = 1 /\ reqs[1].ok
  /\ reqs[1].text = <<"{", "errors", "}">>
  /\ last.ret = [valid |-> TRUE, keys |-> {"errors"}]

\* C15: a minted token is written to the cache file if and only if
\* keep_token = true.  With keep_token = false no construction, renew_token(),
\* query() or close_session() creates or modifies the cache file; with
\* keep_token = true every successful mint leaves a cache file whose content
\* is the minted value, and trimming that content gives the token held in
\* memory; a call without a successful mint leaves the cache file as it was.
C15_CacheWrittenIffKeepToken ==
  [][last'.op # "none" =>
       /\ ~options'.keep_token => tokenFile' = tokenFile
       /\ (\A i \in Mints(reqs') : ~reqs'[i].ok) => tokenFile' = tokenFile
       /\ options'.keep_token =>
            \A i \in Mints(reqs') :
              reqs'[i].ok =>
                /\ tokenFile'.exists
                /\ tokenFile'.content = reqs'[i].access_token
                /\ tokenFile'.mtime = now
                /\ token' = reqs'[i].access_token
                /\ strip(tokenFile'.content) = token']_vars

\* A construction with keep_token = true that found no cache file has minted
\* a token and created the cache file with it.
C15_Witness ==
  /\ last = [op |-> "__init__", result |-> "ok"]
  /\ json_keyfile /\ options.manage_token /\ options.keep_token
  /\ Len(reqs) = 1 /\ IsMint(reqs[1]) /\ reqs[1].ok
  /\ reqs[1].access_token = <<"b">>
  /\ tokenFile = [exists |-> TRUE, content |-> <<"b">>, mtime |-> now]
  /\ token = <<"b">>

\* C16: a construction with a credential file, manage_token = false and
\* keep_token = false leaves the cache file alone and issues exactly one mint
\* request, whether or not a cache file exists; when the mint succeeds the
\* minted value is the in-memory token.
C16_UnmanagedUncachedMintsOnce ==
  [][(/\ last'.op = "__init__"
      /\ json_keyfile /\ keyFile \in ValidCredentialFiles
      /\ ~options'.manage_token /\ ~options'.keep_token) =>
       /\ tokenFile' = tokenFile
       /\ Cardinality(Mints(reqs')) = 1
       /\ \A i \in Mints(reqs') :
            reqs'[i].ok => token' = reqs'[i].access_token]_vars

\* C17: once the client is constructed no operation changes its base URL,
\* not even a renew_token() called after access_token_uri was changed in the
\* credential file.
C17_BaseUrlImmutable ==
  [][phase = "live" => base_url' = base_url]_vars

\* C18: while one client writes a newly minted token to the cache file, a
\* second process that reads the file at any point gets the whole old token
\* or the whole new one, never an empty or partly written value.
C18_ReaderSeesWholeToken ==
  [][(peer.pc = "start" /\ peer'.pc = "read") =>
       /\ peer'.token # EmptyStr
       /\ peer'.token \in {strip(writer.old), token}]_vars

\* C19: when a construction with manage_token = true has found the cached
\* token older than the lifespan and run the expiry branch, the cache file no
\* longer holds the expired token (it is gone, or has been written anew),
\* whether or not the mint request that follows succeeds.
C19_ExpiredCacheDeleted ==
  [][(/\ last'.op = "__init__"
      /\ json_keyfile /\ keyFile \in ValidCredentialFiles
      /\ options'.manage_token
      /\ Expired(tokenFile)
      /\ Revokes(reqs') # {})
     => \/ ~tokenFile'.exists
        \/ tokenFile' # tokenFile]_vars

\* C20: query() changes no session state: in every state and for every
\* answer (2xx, non-2xx, none), the in-memory token, the base URL, the stored
\* credentials and the cache file are after the call what they were before,
\* and the call issues no mint and no revoke request.
C20_QueryChangesNoState ==
  [][last'.op = "query" =>
       /\ token' = token
       /\ base_url' = base_url
       /\ json_key' = json_key
       /\ tokenFile' = tokenFile
       /\ Mints(reqs') = {}
       /\ Revokes(reqs') = {}]_vars

\* query() has raised on a client that holds a token, a cache file and, left
\* by a renew_token() that failed, credentials.
C20_Witness ==
  /\ last.op = "query" /\ last.result = "raised"
  /\ token # EmptyStr
  /\ tokenFile.exists
  /\ json_key # EmptyDict
  /\ Len(reqs) = 1 /\ ~reqs[1].ok

\* C21: on a session with manage_token = true and keep_token = true, whenever
\* a public operation has returned, normally or by raising, and the cache file
\* exists, the trimmed content of the cache file is the in-memory token, and
\* it is not a token this client has revoked.
C21_CacheMatchesToken ==
  (/\ phase = "live" /\ json_keyfile /\ keyFile \in ValidCredentialFiles
   /\ options.manage_token /\ options.keep_token
   /\ last.op # "none"
   /\ tokenFile.exists) =>
    /\ strip(tokenFile.content) = token
    /\ strip(tokenFile.content) \notin revoked

====
